---- MODULE Spec2Model ----
(***************************************************************************)
(* Album catalog (albums/albums.json) and album directories of the        *)
(* photography portfolio, as maintained by AlbumManager                    *)
(* (photography/utils/album_manager.py) with the image derivation of       *)
(* ImageProcessor (photography/utils/image_processor.py).                  *)
(*                                                                         *)
(* A file name is the sequence of its dot-separated components            *)
(* (a.x.jpg is <<"a","x","jpg">>), so that Path.stem, Path.suffix and      *)
(* str.split('.') are computed and not looked up.                          *)
(***************************************************************************)
EXTENDS Integers, Sequences, FiniteSets, TLC

(***************************************************************************)
(* Bounds of the model.                                                    *)
(***************************************************************************)
MaxImages == 2      \* longest images list an album is grown to by add_images
MaxBatch == 2       \* most files in one source directory

AlbumIds == {"x", "y"}

(***************************************************************************)
(* config.py                                                               *)
(***************************************************************************)
SizeNames == <<"grid", "small", "medium", "large">>

SizeSet == { SizeNames[i] : i \in 1..Len(SizeNames) }

RESPONSIVE_SIZES ==
    [grid   |-> [width |-> 400,  quality |-> 85],
     small  |-> [width |-> 800,  quality |-> 85],
     medium |-> [width |-> 1200, quality |-> 85],
     large  |-> [width |-> 1600, quality |-> 85]]

ALLOWED_EXTENSIONS == {"jpg", "jpeg", "png", "webp"}

\* the extensions process_directory globs for
GlobExtensions == {"jpg", "jpeg", "png", "webp", "heic", "heif"}

(***************************************************************************)
(* Source files the operations are given.  ok: Pillow can open and verify  *)
(* the file; w, h: its decoded dimensions after EXIF orientation.          *)
(***************************************************************************)
SourceFiles ==
    { [name |-> <<"a", "jpg">>,      ok |-> TRUE,  w |-> 2000, h |-> 1000],
      [name |-> <<"b", "jpg">>,      ok |-> TRUE,  w |-> 300,  h |-> 200],
      [name |-> <<"c", "jpg">>,      ok |-> FALSE, w |-> 0,    h |-> 0] }

\* a directory holds at most one file of a name
SourceDirs ==
    { d \in SUBSET SourceFiles :
        /\ Cardinality(d) <= MaxBatch
        /\ \A f, g \in d : f.name = g.name => f = g }

\* the components of the names above, in lexicographic (str) order
ComponentOrder == <<"a", "b", "c", "jpg", "png", "x", "y">>

Rank(c) == CHOOSE i \in 1..Len(ComponentOrder) : ComponentOrder[i] = c

\* n1 < n2 as Path objects: '.' sorts before every letter, so the order of
\* the names is the lexicographic order of their component sequences
RECURSIVE NameLess(_, _)
NameLess(n1, n2) ==
    IF n2 = <<>> THEN FALSE
    ELSE IF n1 = <<>> THEN TRUE
    ELSE IF Head(n1) # Head(n2) THEN Rank(Head(n1)) < Rank(Head(n2))
    ELSE NameLess(Tail(n1), Tail(n2))

\* sorted(image_files)
RECURSIVE sorted(_)
sorted(fs) ==
    IF fs = {} THEN <<>>
    ELSE LET m == CHOOSE f \in fs : \A g \in fs \ {f} : NameLess(f.name, g.name)
         IN  <<m>> \o sorted(fs \ {m})

\* Path.suffix without its dot, Path.stem
suffix(name) == IF Len(name) > 1 THEN name[Len(name)] ELSE ""
stem(name) == IF Len(name) > 1 THEN SubSeq(name, 1, Len(name) - 1) ELSE name

(***************************************************************************)
(* validation.py                                                           *)
(***************************************************************************)
validate_image_file(f) == suffix(f.name) \in ALLOWED_EXTENSIONS /\ f.ok

\* A date string is the sequence of its characters.
Digits == <<"0", "1", "2", "3", "4", "5", "6", "7", "8", "9">>

IsDigit(c) == \E i \in 1..Len(Digits) : Digits[i] = c

DigitValue(c) == (CHOOSE i \in 1..Len(Digits) : Digits[i] = c) - 1

\* the parts of a string between its dashes
RECURSIVE Fields(_)
Fields(str) ==
    LET dashes == { i \in 1..Len(str) : str[i] = "-" }
    IN  IF dashes = {} THEN <<str>>
        ELSE LET i == CHOOSE j \in dashes : \A k \in dashes : j <= k
             IN  <<SubSeq(str, 1, i - 1)>> \o Fields(SubSeq(str, i + 1, Len(str)))

\* int() of a string of digits
RECURSIVE Number(_)
Number(ds) ==
    IF ds = <<>> THEN 0
    ELSE Number(SubSeq(ds, 1, Len(ds) - 1)) * 10 + DigitValue(ds[Len(ds)])

DaysInMonth(year, month) ==
    IF month \in {4, 6, 9, 11} THEN 30
    ELSE IF month # 2 THEN 31
    ELSE IF year % 4 = 0 /\ (year % 100 # 0 \/ year % 400 = 0) THEN 29
    ELSE 28

\* datetime.strptime(date, '%Y-%m-%d') succeeds: four digits of year, one or
\* two digits of month and of day, and the three name a day of the calendar
strptime(date) ==
    LET f == Fields(date)
    IN  /\ Len(f) = 3
        /\ \A i \in 1..3 : \A j \in 1..Len(f[i]) : IsDigit(f[i][j])
        /\ Len(f[1]) = 4 /\ Len(f[2]) \in 1..2 /\ Len(f[3]) \in 1..2
        /\ Number(f[1]) >= 1
        /\ Number(f[2]) \in 1..12
        /\ Number(f[3]) \in 1..DaysInMonth(Number(f[1]), Number(f[2]))

\* the pattern of "date" in ALBUM_SCHEMA: ^\d{4}-\d{2}-\d{2}$
DatePattern(date) ==
    /\ Len(date) = 10
    /\ \A i \in 1..10 : IF i \in {5, 8} THEN date[i] = "-" ELSE IsDigit(date[i])

\* the date strings given to the calls
DateStr(year, month, day) == year \o <<"-">> \o month \o <<"-">> \o day

Date_2024_05_01 == DateStr(<<"2", "0", "2", "4">>, <<"0", "5">>, <<"0", "1">>)
Date_2023_01_15 == DateStr(<<"2", "0", "2", "3">>, <<"0", "1">>, <<"1", "5">>)
Date_2024_13_01 == DateStr(<<"2", "0", "2", "4">>, <<"1", "3">>, <<"0", "1">>)
Date_2024_5_1 == DateStr(<<"2", "0", "2", "4">>, <<"5">>, <<"1">>)

(***************************************************************************)
(* image_processor.py                                                      *)
(***************************************************************************)
\* the file of one size variant, relative to the album directory:
\* images/<size>/<base_name>.webp
WebpPath(size, base) == <<"images", size, base, "webp">>

\* declared (and written) dimensions of one size variant
VersionDims(size, f) ==
    LET width == RESPONSIVE_SIZES[size].width
    IN  IF width < f.w
        THEN [width |-> width, height |-> (f.h * width) \div f.w]
        ELSE [width |-> f.w, height |-> f.h]

\* _create_responsive_versions; failAt = k > 0: the save of the k-th size
\* raises.  written: the files saved before that.
create_responsive_versions(f, failAt) ==
    LET base_name == Head(stem(f.name))
        upto == IF failAt = 0 THEN Len(SizeNames) ELSE failAt - 1
        done == { SizeNames[i] : i \in 1..upto }
    IN  [ok |-> failAt = 0,
         versions |-> [s \in SizeSet |->
                          [webp |-> WebpPath(s, base_name),
                           width |-> VersionDims(s, f).width,
                           height |-> VersionDims(s, f).height]],
         written |-> [p \in { WebpPath(s, base_name) : s \in done } |->
                          LET s == p[2] IN VersionDims(s, f)]]

\* process_single_image: raises (ok = FALSE) when validation or a save fails;
\* hit: a save raised
process_single_image(f, failAt) ==
    IF ~validate_image_file(f)
    THEN [ok |-> FALSE, meta |-> [id |-> stem(f.name)], written |-> <<>>,
          hit |-> FALSE]
    ELSE LET r == create_responsive_versions(f, failAt)
         IN  [ok |-> r.ok,
              meta |-> [id |-> stem(f.name), sizes |-> r.versions],
              written |-> r.written,
              hit |-> ~r.ok]

\* what a batch of concurrent process_single_image tasks leaves on disk: the
\* tasks write without synchronisation, so a path written by several tasks
\* ends with the content of any one of them
RECURSIVE RaceChoices(_, _)
RaceChoices(paths, rs) ==
    IF paths = {} THEN { <<>> }
    ELSE LET p == CHOOSE q \in paths : TRUE
             cands == { r.written[p] : r \in { t \in rs : p \in DOMAIN t.written } }
         IN  { (p :> c) @@ g : c \in cands, g \in RaceChoices(paths \ {p}, rs) }

RaceOutcomes(rs) == RaceChoices(UNION { DOMAIN r.written : r \in rs }, rs)

\* the save that the fault makes fail while file f of path pathIdx is derived
FailAt(fault, pathIdx, f) ==
    IF fault.kind = "write" /\ fault.path = pathIdx /\ fault.name = f.name
    THEN fault.at ELSE 0

\* process_album letting the exception of one image end the batch: no entry
\* is kept when an image fails
process_album_all_or_nothing(image_files, metadata, fault, pathIdx) ==
    LET idx == 1..Len(image_files)
        res(i) == process_single_image(image_files[i],
                                       FailAt(fault, pathIdx, image_files[i]))
        failed == \E i \in idx : ~res(i).ok
        newMeta == [n \in DOMAIN metadata \cup { image_files[i].name : i \in idx } |->
                      IF \E i \in idx : image_files[i].name = n
                      THEN res(CHOOSE i \in idx : image_files[i].name = n).meta
                      ELSE metadata[n]]
    IN  { [returned |-> IF failed THEN metadata ELSE newMeta,
           metadata |-> IF failed THEN metadata ELSE newMeta,
           written |-> g,
           hit |-> \E i \in idx : res(i).hit] :
            g \in RaceOutcomes({ res(i) : i \in idx }) }

\* process_album over the sorted image_files: self.metadata (a function
\* from file names to image entries) gains the entries of the images that
\* were derived.  The result is the set of [metadata, written] the race allows.
process_album(image_files, metadata, fault, pathIdx) ==
    LET idx == 1..Len(image_files)
        res(i) == process_single_image(image_files[i],
                                       FailAt(fault, pathIdx, image_files[i]))
        okNames == { image_files[i].name : i \in { j \in idx : res(j).ok } }
        newMeta == [n \in DOMAIN metadata \cup okNames |->
                      IF n \in okNames
                      THEN res(CHOOSE i \in idx : image_files[i].name = n).meta
                      ELSE metadata[n]]
    IN  IF image_files = <<>>
        THEN { [returned |-> <<>>, metadata |-> metadata, written |-> <<>>,
                hit |-> FALSE] }
        ELSE { [returned |-> newMeta, metadata |-> newMeta, written |-> g,
                hit |-> \E i \in idx : res(i).hit] :
                 g \in RaceOutcomes({ res(i) : i \in idx }) }

\* the list comprehension of process_directory:
\* [metadata[f.name] for f in image_files if f.name in metadata]
RECURSIVE MetadataList(_, _)
MetadataList(image_files, metadata) ==
    IF image_files = <<>> THEN <<>>
    ELSE (IF Head(image_files).name \in DOMAIN metadata
          THEN <<metadata[Head(image_files).name]>> ELSE <<>>)
         \o MetadataList(Tail(image_files), metadata)

\* process_directory listing the images in the opposite of the sorted order
process_directory_reversed(dir_path, metadata, fault, pathIdx) ==
    LET image_files == sorted({ f \in dir_path : suffix(f.name) \in GlobExtensions })
        reversed == [i \in 1..Len(image_files) |-> image_files[Len(image_files) + 1 - i]]
    IN  IF image_files = <<>>
        THEN { [list |-> <<>>, metadata |-> metadata, written |-> <<>>,
                hit |-> FALSE] }
        ELSE { [list |-> MetadataList(reversed, r.returned),
                metadata |-> r.metadata,
                written |-> r.written,
                hit |-> r.hit] :
                 r \in process_album(image_files, metadata, fault, pathIdx) }

\* process_directory: the set of [list, metadata, written] it can end with
process_directory(dir_path, metadata, fault, pathIdx) ==
    LET image_files == sorted({ f \in dir_path : suffix(f.name) \in GlobExtensions })
    IN  IF image_files = <<>>
        THEN { [list |-> <<>>, metadata |-> metadata, written |-> <<>>,
                hit |-> FALSE] }
        ELSE { [list |-> MetadataList(image_files, r.returned),
                metadata |-> r.metadata,
                written |-> r.written,
                hit |-> r.hit] :
                 r \in process_album(image_files, metadata, fault, pathIdx) }

(***************************************************************************)
(* The file system under albums/ and the catalog file albums/albums.json.  *)
(***************************************************************************)
VARIABLES
    catalog,    \* albums.json: [state, albums]; albums is its "albums" list
    fs,         \* fs[id]: the directory albums/<id>
    last,       \* the last completed call: operation, arguments, result
    inflight,   \* inflight[p]: the call of caller p that has loaded the
                \* catalog and has not saved it yet
    pool        \* the batch of derivation tasks of the call in progress

vars == <<catalog, fs, last, inflight, pool>>

\* the processes that call the AlbumManager
Callers == {"p1", "p2"}

Idle == [pc |-> "idle"]

\* no call is deriving a batch
NoPool ==
    [pc |-> "idle", op |-> "", id |-> "", image_files |-> <<>>, tasks |-> <<>>,
     next |-> 1, metadata |-> <<>>, albums_data |-> <<>>]

NoDir == [exists |-> FALSE, index |-> FALSE, files |-> <<>>]

\* files with the files of w written over them
Overwrite(files, w) ==
    [p \in DOMAIN files \cup DOMAIN w |-> IF p \in DOMAIN w THEN w[p] ELSE files[p]]

\* files without the paths of ps
Without(files, ps) == [p \in DOMAIN files \ ps |-> files[p]]

\* the coverImage delete_images leaves when no image remains: {}
EmptyCover == [empty |-> TRUE]

\* [img for img in images if img['id'] != image_id]
RECURSIVE RemoveId(_, _)
RemoveId(images, image_id) ==
    IF images = <<>> THEN <<>>
    ELSE (IF Head(images).id # image_id THEN <<Head(images)>> ELSE <<>>)
         \o RemoveId(Tail(images), image_id)

\* next((x for x in seq if x['id'] == id), None): its index, 0 for None
FindId(seq, id) ==
    LET hits == { i \in 1..Len(seq) : seq[i].id = id }
    IN  IF hits = {} THEN 0 ELSE CHOOSE i \in hits : \A j \in hits : i <= j

\* _load_albums_json taking an unparsable file for an empty catalog
load_albums_json_lenient(cat) ==
    IF cat.state = "valid" THEN [ok |-> TRUE, albums |-> cat.albums]
    ELSE [ok |-> TRUE, albums |-> <<>>]

\* _load_albums_json: json.load raises on an unparsable file
load_albums_json(cat) ==
    IF cat.state = "absent" THEN [ok |-> TRUE, albums |-> <<>>]
    ELSE IF cat.state = "corrupt" THEN [ok |-> FALSE, albums |-> <<>>]
    ELSE [ok |-> TRUE, albums |-> cat.albums]

\* _save_albums_json: open(..., 'w') truncates the file and json.dump writes
\* into it.  fault "save_open": open raises, the file is as before;
\* fault "save_write": the write raises part-way, the file is left truncated.
save_albums_json(cat, albums, fault) ==
    IF fault.kind = "save_open" THEN [ok |-> FALSE, catalog |-> cat, hit |-> TRUE]
    ELSE IF fault.kind = "save_write"
    THEN [ok |-> FALSE, catalog |-> [state |-> "corrupt", albums |-> <<>>],
          hit |-> TRUE]
    ELSE [ok |-> TRUE, catalog |-> [state |-> "valid", albums |-> albums],
          hit |-> FALSE]

\* _update_albums_json without its duplicate check
update_albums_json_unchecked(cat, new_album, fault) ==
    LET loaded == load_albums_json(cat)
    IN  IF ~loaded.ok THEN [ok |-> FALSE, catalog |-> cat, hit |-> FALSE]
        ELSE save_albums_json(cat, Append(loaded.albums, new_album), fault)

\* _update_albums_json
update_albums_json(cat, new_album, fault) ==
    LET loaded == load_albums_json(cat)
    IN  IF ~loaded.ok THEN [ok |-> FALSE, catalog |-> cat, hit |-> FALSE]
        ELSE IF \E i \in 1..Len(loaded.albums) : loaded.albums[i].id = new_album.id
        THEN [ok |-> FALSE, catalog |-> cat, hit |-> FALSE]
        ELSE save_albums_json(cat, Append(loaded.albums, new_album), fault)

\* validate_album_data: the album record, or a ValidationError
validate_album_data(album_id, title, date, description, cover_image, images) ==
    [ok |-> strptime(date) /\ DatePattern(date),
     album |-> [id |-> album_id, title |-> title, description |-> description,
                date |-> date, coverImage |-> cover_image, images |-> images,
                metadata |-> <<>>]]

(***************************************************************************)
(* Faults of the environment.  A call meets at most one of them.           *)
(*   mkdir       album_dir.mkdir raises                                    *)
(*   rmtree      shutil.rmtree raises, the directory is left as it was     *)
(*   template    template.html is missing or shutil.copy2 raises           *)
(*   write       the save of the at-th size of file name of path raises    *)
(*   unlink      the unlink of the at-th size of the path-th id raises     *)
(*   save_open, save_write   see save_albums_json                          *)
(***************************************************************************)
NoFault == [kind |-> "none"]

\* the sizes (by position in SizeNames) at which a save or unlink can raise
WriteFailPoints == {3}
UnlinkFailPoints == {2}

WriteFaults(names, paths) ==
    { [kind |-> "write", path |-> p, name |-> n, at |-> k] :
        p \in paths, n \in names, k \in WriteFailPoints }

SaveFaults == { [kind |-> "save_open"], [kind |-> "save_write"] }

\* shutil.rmtree(album_dir): removes the directory, or raises leaving it
rmtree(dir, fault) ==
    IF fault.kind = "rmtree" THEN [ok |-> FALSE, dir |-> dir] ELSE [ok |-> TRUE, dir |-> NoDir]

(***************************************************************************)
(* AlbumManager.create_album                                               *)
(***************************************************************************)
\* the except clause: remove album_dir when it exists, return False; an
\* exception of rmtree escapes the call.  hit: the call has met its fault.
create_album_except(dir, cat, fault, hit) ==
    IF dir.exists
    THEN LET r == rmtree(dir, fault)
         IN  [result |-> IF r.ok THEN "False" ELSE "raised",
              dir |-> r.dir, catalog |-> cat, hit |-> hit \/ ~r.ok]
    ELSE [result |-> "False", dir |-> dir, catalog |-> cat, hit |-> hit]

\* the call from the derived images on
create_album_commit(cat, dir, album_name, title, date, description, cover_image, images_metadata, fault, hit) ==
    IF images_metadata = <<>>
    THEN \* rmtree, raise ValueError: the except clause finds what rmtree left
         create_album_except(rmtree(dir, fault).dir, cat, fault,
                             hit \/ ~rmtree(dir, fault).ok)
    ELSE LET cover_id == stem(cover_image)
             found == FindId(images_metadata, cover_id)
         IN  IF cover_image # <<>> /\ found = 0
             THEN create_album_except(dir, cat, fault, hit)
             ELSE LET cover_metadata ==
                          IF cover_image # <<>> THEN images_metadata[found]
                          ELSE images_metadata[1]
                      v == validate_album_data(album_name, title, date, description,
                                               cover_metadata.sizes.grid,
                                               images_metadata)
                  IN  IF ~v.ok THEN create_album_except(dir, cat, fault, hit)
                      ELSE LET u == update_albums_json(cat, v.album, fault)
                           IN  IF ~u.ok
                               THEN create_album_except(dir, u.catalog, fault,
                                                        hit \/ u.hit)
                               ELSE [result |-> "True", dir |-> dir,
                                     catalog |-> u.catalog, hit |-> hit]

\* the outcomes of create_album: [result, dir, catalog, hit, made]; made:
\* album_dir.mkdir was carried out in the course of the call
create_album(cat, dir0, album_name, title, date, image_dir, description, cover_image, fault) ==
    IF dir0.exists
    THEN { [made |-> FALSE] @@ create_album_except(dir0, cat, fault, FALSE) }
    ELSE IF ~image_dir.exists
    THEN { [result |-> "False", dir |-> dir0, catalog |-> cat, hit |-> FALSE,
            made |-> FALSE] }
    ELSE IF fault.kind = "mkdir"
    THEN { [result |-> "False", dir |-> dir0, catalog |-> cat, hit |-> TRUE,
            made |-> FALSE] }
    ELSE IF fault.kind = "template"
    THEN { [made |-> TRUE]
           @@ create_album_except([exists |-> TRUE, index |-> FALSE, files |-> <<>>],
                                  cat, fault, TRUE) }
    ELSE { [made |-> TRUE]
           @@ create_album_commit(cat,
                                  [exists |-> TRUE, index |-> TRUE, files |-> r.written],
                                  album_name, title, date, description, cover_image,
                                  r.list, fault, r.hit) :
             r \in process_directory(image_dir.files, <<>>, fault, 1) }

(***************************************************************************)
(* AlbumManager.delete_album                                               *)
(***************************************************************************)
\* delete_album saving an empty "albums" list
delete_album_all(cat, dir, album_id, fault) ==
    LET loaded == load_albums_json(cat)
        unchanged == [result |-> "False", dir |-> dir, catalog |-> cat]
    IN  IF ~loaded.ok \/ FindId(loaded.albums, album_id) = 0
        THEN unchanged @@ [hit |-> FALSE]
        ELSE LET r == IF dir.exists THEN rmtree(dir, fault)
                      ELSE [ok |-> TRUE, dir |-> dir]
                 sv == save_albums_json(cat, <<>>, fault)
             IN  IF ~r.ok THEN unchanged @@ [hit |-> TRUE]
                 ELSE [result |-> IF sv.ok THEN "True" ELSE "False",
                       dir |-> r.dir, catalog |-> sv.catalog, hit |-> sv.hit]

delete_album(cat, dir, album_id, fault) ==
    LET loaded == load_albums_json(cat)
        unchanged == [result |-> "False", dir |-> dir, catalog |-> cat]
    IN  IF ~loaded.ok \/ FindId(loaded.albums, album_id) = 0
        THEN unchanged @@ [hit |-> FALSE]
        ELSE LET r == IF dir.exists THEN rmtree(dir, fault)
                      ELSE [ok |-> TRUE, dir |-> dir]
                 sv == save_albums_json(cat, RemoveId(loaded.albums, album_id), fault)
             IN  IF ~r.ok THEN unchanged @@ [hit |-> TRUE]
                 ELSE [result |-> IF sv.ok THEN "True" ELSE "False",
                       dir |-> r.dir, catalog |-> sv.catalog, hit |-> sv.hit]

(***************************************************************************)
(* AlbumManager.add_images                                                 *)
(***************************************************************************)
\* the loop over image_paths from path i on.  acc: the files of the album
\* directory, new_images, processor.metadata, whether a call raised and
\* whether the fault was met.
RECURSIVE add_images_loop(_, _, _, _)
add_images_loop(image_paths, i, acc, fault) ==
    IF i > Len(image_paths) \/ acc.raised THEN { acc }
    ELSE LET path == image_paths[i]
         IN  IF path.kind = "file"
             THEN LET f == CHOOSE g \in path.files : TRUE
                      r == process_single_image(f, FailAt(fault, i, f))
                  IN  add_images_loop(image_paths, i + 1,
                          [files |-> Overwrite(acc.files, r.written),
                           new_images |-> IF r.ok THEN Append(acc.new_images, r.meta)
                                          ELSE acc.new_images,
                           metadata |-> acc.metadata,
                           raised |-> ~r.ok,
                           hit |-> r.hit], fault)
             ELSE IF path.kind = "dir"
             THEN UNION { add_images_loop(image_paths, i + 1,
                              [files |-> Overwrite(acc.files, r.written),
                               new_images |-> acc.new_images \o r.list,
                               metadata |-> r.metadata,
                               raised |-> FALSE,
                               hit |-> acc.hit \/ r.hit], fault) :
                            r \in process_directory(path.files, acc.metadata, fault, i) }
             ELSE add_images_loop(image_paths, i + 1, acc, fault)

\* the outcomes of add_images: [result, dir, catalog]
add_images(cat, dir, album_id, image_paths, fault) ==
    LET loaded == load_albums_json(cat)
        k == FindId(loaded.albums, album_id)
        unchanged == [result |-> "False", dir |-> dir, catalog |-> cat]
    IN  IF ~loaded.ok \/ k = 0 \/ ~dir.exists THEN { unchanged @@ [hit |-> FALSE] }
        ELSE { LET newdir == [dir EXCEPT !.files = acc.files]
                   album == [loaded.albums[k] EXCEPT
                               !.images = loaded.albums[k].images \o acc.new_images]
                   sv == save_albums_json(cat, [loaded.albums EXCEPT ![k] = album], fault)
               IN  IF acc.raised \/ acc.new_images = <<>>
                   THEN [result |-> "False", dir |-> newdir, catalog |-> cat,
                         hit |-> acc.hit]
                   ELSE [result |-> IF sv.ok THEN "True" ELSE "False",
                         dir |-> newdir, catalog |-> sv.catalog,
                         hit |-> acc.hit \/ sv.hit] :
                 acc \in add_images_loop(image_paths, 1,
                            [files |-> dir.files, new_images |-> <<>>,
                             metadata |-> <<>>, raised |-> FALSE, hit |-> FALSE],
                            fault) }

(***************************************************************************)
(* AlbumManager.delete_images                                              *)
(***************************************************************************)
\* the loop body without the update of the cover image
delete_one_image_keep_cover(acc, image_id, j, fault) ==
    LET album == acc.album
        t == FindId(album.images, image_id)
        failAt == IF fault.kind = "unlink" /\ fault.path = j THEN fault.at ELSE 0
        upto == IF failAt = 0 THEN Len(SizeNames) ELSE failAt - 1
        unlinked == { album.images[t].sizes[SizeNames[n]].webp : n \in 1..upto }
        files == Without(acc.files, unlinked)
    IN  IF t = 0 THEN [acc EXCEPT !.success = FALSE]
        ELSE IF failAt # 0
        THEN [album |-> album, files |-> files, success |-> FALSE, hit |-> TRUE]
        ELSE [album |-> [album EXCEPT !.images = RemoveId(album.images, image_id)],
              files |-> files, success |-> acc.success, hit |-> acc.hit]

\* one pass of the loop body for the j-th id; acc: album, files, success, hit
delete_one_image(acc, image_id, j, fault) ==
    LET album == acc.album
        t == FindId(album.images, image_id)
        target_image == album.images[t]
        failAt == IF fault.kind = "unlink" /\ fault.path = j THEN fault.at ELSE 0
        upto == IF failAt = 0 THEN Len(SizeNames) ELSE failAt - 1
        unlinked == { target_image.sizes[SizeNames[n]].webp : n \in 1..upto }
        files == Without(acc.files, unlinked)
        remaining_images == RemoveId(album.images, image_id)
    IN  IF t = 0 THEN [acc EXCEPT !.success = FALSE]
        ELSE IF failAt # 0 \/ "webp" \notin DOMAIN album.coverImage
        THEN \* unlink raised, or KeyError on the empty coverImage
             [album |-> album, files |-> files, success |-> FALSE,
              hit |-> acc.hit \/ failAt # 0]
        ELSE [album |-> [album EXCEPT
                           !.coverImage =
                               IF album.coverImage.webp = target_image.sizes.grid.webp
                               THEN IF remaining_images # <<>>
                                    THEN remaining_images[1].sizes.grid
                                    ELSE EmptyCover
                               ELSE @,
                           !.images = remaining_images],
              files |-> files, success |-> acc.success, hit |-> acc.hit]

RECURSIVE delete_images_loop(_, _, _, _)
delete_images_loop(image_ids, j, acc, fault) ==
    IF j > Len(image_ids) THEN acc
    ELSE delete_images_loop(image_ids, j + 1,
                            delete_one_image(acc, image_ids[j], j, fault), fault)

\* the outcome of delete_images: [result, dir, catalog]
delete_images(cat, dir, album_id, image_ids, fault) ==
    LET loaded == load_albums_json(cat)
        k == FindId(loaded.albums, album_id)
    IN  IF ~loaded.ok \/ k = 0 \/ ~dir.exists
        THEN [result |-> "False", dir |-> dir, catalog |-> cat, hit |-> FALSE]
        ELSE LET acc == delete_images_loop(image_ids, 1,
                            [album |-> loaded.albums[k], files |-> dir.files,
                             success |-> TRUE, hit |-> FALSE], fault)
                 sv == save_albums_json(cat, [loaded.albums EXCEPT ![k] = acc.album],
                                        fault)
             IN  [result |-> IF sv.ok /\ acc.success THEN "True" ELSE "False",
                  dir |-> [dir EXCEPT !.files = acc.files],
                  catalog |-> sv.catalog, hit |-> acc.hit \/ sv.hit]

(***************************************************************************)
(* AlbumManager.update_album.  updates: the keyword arguments, a function  *)
(* from the keywords given to their values.                                *)
(***************************************************************************)
\* update_album taking the keyword id for a new id of the album
update_album_renaming(cat, album_id, updates, fault) ==
    LET loaded == load_albums_json(cat)
        k == FindId(loaded.albums, album_id)
        renamed == [loaded.albums[k] EXCEPT
                      !.id = IF "id" \in DOMAIN updates THEN updates.id ELSE @]
        sv == save_albums_json(cat, [loaded.albums EXCEPT ![k] = renamed], fault)
    IN  IF ~loaded.ok \/ k = 0
        THEN [result |-> "False", catalog |-> cat, hit |-> FALSE]
        ELSE [result |-> IF sv.ok THEN "True" ELSE "False", catalog |-> sv.catalog,
              hit |-> sv.hit]

update_album(cat, album_id, updates, fault) ==
    LET loaded == load_albums_json(cat)
        k == FindId(loaded.albums, album_id)
        album == loaded.albums[k]
        given(key) == key \in DOMAIN updates
        c == IF given("cover_image") THEN FindId(album.images, updates.cover_image)
             ELSE 0
        updated == [album EXCEPT
                      !.title = IF given("title") THEN updates.title ELSE @,
                      !.date = IF given("date") THEN updates.date ELSE @,
                      !.description = IF given("description")
                                      THEN updates.description ELSE @,
                      !.coverImage = IF given("cover_image")
                                     THEN album.images[c].sizes.grid ELSE @]
        sv == save_albums_json(cat, [loaded.albums EXCEPT ![k] = updated], fault)
        unchanged == [result |-> "False", catalog |-> cat, hit |-> FALSE]
    IN  IF ~loaded.ok \/ k = 0 THEN unchanged
        ELSE IF given("date") /\ ~strptime(updates.date) THEN unchanged
        ELSE IF given("cover_image") /\ c = 0 THEN unchanged
        ELSE [result |-> IF sv.ok THEN "True" ELSE "False", catalog |-> sv.catalog,
              hit |-> sv.hit]

(***************************************************************************)
(* AlbumManager.list_albums                                                *)
(***************************************************************************)
\* the characters of a date string in the order of their code points
CharOrder == <<"-">> \o Digits

CharRank(c) == CHOOSE i \in 1..Len(CharOrder) : CharOrder[i] = c

\* s1 < s2 as Python strings
RECURSIVE StrLess(_, _)
StrLess(s1, s2) ==
    IF s2 = <<>> THEN FALSE
    ELSE IF s1 = <<>> THEN TRUE
    ELSE IF Head(s1) # Head(s2) THEN CharRank(Head(s1)) < CharRank(Head(s2))
    ELSE StrLess(Tail(s1), Tail(s2))

\* al put into a list in descending order of date, behind the albums whose
\* date is not smaller
RECURSIVE InsertByDate(_, _)
InsertByDate(albums, al) ==
    IF albums = <<>> THEN <<al>>
    ELSE IF StrLess(Head(albums).date, al.date) THEN <<al>> \o albums
    ELSE <<Head(albums)>> \o InsertByDate(Tail(albums), al)

\* sorted(albums, key=lambda x: x['date'], reverse=True): albums of one date
\* keep their order
RECURSIVE SortByDateDescending(_)
SortByDateDescending(albums) ==
    IF albums = <<>> THEN <<>>
    ELSE InsertByDate(SortByDateDescending(SubSeq(albums, 1, Len(albums) - 1)),
                      albums[Len(albums)])

\* list_albums without its try: the exception of _load_albums_json escapes
list_albums_unguarded(cat) ==
    LET loaded == load_albums_json(cat)
    IN  IF ~loaded.ok THEN [result |-> "raised", value |-> <<>>]
        ELSE [result |-> "returned", value |-> SortByDateDescending(loaded.albums)]

\* list_albums: the list it returns; the except clause returns []
list_albums(cat) ==
    LET loaded == load_albums_json(cat)
    IN  IF ~loaded.ok THEN [result |-> "returned", value |-> <<>>]
        ELSE [result |-> "returned", value |-> SortByDateDescending(loaded.albums)]

(***************************************************************************)
(* AlbumManager.get_album                                                  *)
(***************************************************************************)
\* get_album: value holds the album, and is empty for None; the except clause
\* returns None
get_album(cat, album_id) ==
    LET loaded == load_albums_json(cat)
        k == FindId(loaded.albums, album_id)
    IN  IF ~loaded.ok \/ k = 0 THEN [result |-> "returned", value |-> <<>>]
        ELSE [result |-> "returned", value |-> <<loaded.albums[k]>>]

(***************************************************************************)
(* process_staging.py: process_staging_album on a staged directory         *)
(* [metadata_json, files]: whether metadata.json is there, and the other   *)
(* files (all with an extension).  metadata: the content of metadata.json, *)
(* a function from its keys.  The staged directory is not part of the      *)
(* state: the outcome tells whether the call has removed it.               *)
(***************************************************************************)
\* the parameters of AlbumManager.create_album
CreateAlbumParameters ==
    {"album_name", "title", "date", "image_dir", "description", "cover_image"}

\* manager.create_album(**kwargs): a keyword that names no parameter raises
\* TypeError before the body of create_album runs
call_create_album(cat, dir0, kwargs, fault) ==
    IF ~(DOMAIN kwargs \subseteq CreateAlbumParameters)
    THEN { [result |-> "raised", dir |-> dir0, catalog |-> cat, hit |-> FALSE] }
    ELSE create_album(cat, dir0, kwargs.album_name, kwargs.title, kwargs.date,
                      kwargs.image_dir, kwargs.description, kwargs.cover_image, fault)

\* the orders in which iterdir can list the files
Orders(files) ==
    { order \in [1..Cardinality(files) -> files] :
        \A i, j \in DOMAIN order : order[i] = order[j] => i = j }

\* process_staging_album taking a staged directory with metadata.json and no
\* image for a failure
process_staging_album_strict(cat, dir0, album_id, metadata, staged, fault) ==
    { [result |-> IF staged.metadata_json THEN "False" ELSE "True",
       dir |-> dir0, catalog |-> cat, hit |-> FALSE, removed |-> FALSE] }

\* the outcomes of process_staging_album: [result, dir, catalog, hit, removed];
\* removed: shutil.rmtree(album_dir) has removed the staged directory
process_staging_album(cat, dir0, album_id, metadata, staged, fault) ==
    LET returns(r) == { [result |-> r, dir |-> dir0, catalog |-> cat, hit |-> FALSE,
                         removed |-> FALSE] }
        finish(os) == { [removed |-> o.result = "True"] @@ o : o \in os }
        get(key, default) == IF key \in DOMAIN metadata THEN metadata[key] ELSE default
        loaded == load_albums_json(cat)
        existing_album == loaded.ok /\ FindId(loaded.albums, album_id) # 0
        sorted_images == sorted(staged.files)
        cover_image ==
            IF get("cover_image", <<>>) # <<>> THEN metadata.cover_image
            ELSE IF "cover_index" \in DOMAIN metadata
                    /\ metadata.cover_index - 1 \in 0..(Len(sorted_images) - 1)
            THEN stem(sorted_images[metadata.cover_index].name)
            ELSE <<>>
    IN  IF ~staged.metadata_json THEN returns("True")
        ELSE IF ~({"title", "date"} \subseteq DOMAIN metadata) THEN returns("False")
        ELSE IF staged.files = {} THEN returns("True")
        ELSE IF existing_album
        THEN finish(UNION { add_images(cat, dir0, album_id,
                                       [i \in DOMAIN order |->
                                           [kind |-> "file", files |-> {order[i]}]],
                                       fault) : order \in Orders(staged.files) })
        ELSE finish(call_create_album(cat, dir0,
                        [album_name |-> album_id,
                         title |-> metadata.title,
                         date |-> metadata.date,
                         description |-> get("description", ""),
                         image_dir |-> [exists |-> TRUE, files |-> staged.files],
                         cover_image |-> cover_image,
                         favorite |-> get("favorite", FALSE)],
                        fault))

(***************************************************************************)
(* The calls, with the arguments and faults they are given.                *)
(***************************************************************************)
\* the albums a reader of the catalog file finds
Albums == IF catalog.state = "valid" THEN catalog.albums ELSE <<>>

InCatalog(id) == \E i \in 1..Len(Albums) : Albums[i].id = id

Names(files) == { f.name : f \in files }

\* last.fault: the fault the call met, "none" when it met none
Called(op, id, o, fault) ==
    last' = [op |-> op, id |-> id, result |-> o.result,
             fault |-> IF o.hit THEN fault.kind ELSE "none",
             pre |-> [inCatalog |-> InCatalog(id), dirExists |-> fs[id].exists]]

\* the arguments a call reads: all of S when it gets to read them, otherwise
\* one of them (it makes no difference which)
Read(reads, S) == IF reads THEN S ELSE { CHOOSE x \in S : TRUE }

\* the files of a set whose derivation gets as far as saving size variants
Derivable(files) == { f \in files : validate_image_file(f) }

CreateAlbum(ids, dates, dirs, hints) ==
    \E album_name \in ids :
      LET fresh == ~fs[album_name].exists
      IN  \E date \in Read(fresh, dates), image_dir \in Read(fresh, dirs),
             cover_image \in Read(fresh, hints) :
            \E fault \in {NoFault, [kind |-> "rmtree"]}
                         \cup (IF fresh
                               THEN {[kind |-> "mkdir"], [kind |-> "template"]}
                                    \cup SaveFaults
                                    \cup WriteFaults(Names(Derivable(image_dir.files)), {1})
                               ELSE {}) :
              \E o \in create_album(catalog, fs[album_name], album_name, "t1", date,
                                    image_dir, "", cover_image, fault) :
                /\ catalog' = o.catalog
                /\ fs' = [fs EXCEPT ![album_name] = o.dir]
                /\ Called("create_album", album_name, o, fault)
                /\ UNCHANGED <<inflight, pool>>

DeleteAlbum(ids) ==
    \E album_id \in ids :
      \E fault \in {NoFault} \cup (IF InCatalog(album_id)
                                   THEN {[kind |-> "rmtree"]} \cup SaveFaults ELSE {}) :
        LET o == delete_album(catalog, fs[album_id], album_id, fault)
        IN  /\ catalog' = o.catalog
            /\ fs' = [fs EXCEPT ![album_id] = o.dir]
            /\ Called("delete_album", album_id, o, fault)
            /\ UNCHANGED <<inflight, pool>>

ImagesOf(cat, id) ==
    LET k == FindId(cat.albums, id) IN IF k = 0 THEN <<>> ELSE cat.albums[k].images

AddImages(ids, pathLists) ==
    \E album_id \in ids :
      LET reads == InCatalog(album_id) /\ fs[album_id].exists
      IN  \E image_paths \in Read(reads, pathLists) :
            \E fault \in {NoFault}
                         \cup (IF reads
                               THEN SaveFaults
                                    \cup UNION { WriteFaults(Names(Derivable(image_paths[i].files)), {i}) :
                                                   i \in 1..Len(image_paths) }
                               ELSE {}) :
              \E o \in add_images(catalog, fs[album_id], album_id, image_paths, fault) :
                /\ Len(ImagesOf(o.catalog, album_id)) <= MaxImages
                /\ catalog' = o.catalog
                /\ fs' = [fs EXCEPT ![album_id] = o.dir]
                /\ Called("add_images", album_id, o, fault)
                /\ UNCHANGED <<inflight, pool>>

DeleteImages(ids, idLists) ==
    \E album_id \in ids :
      LET reads == InCatalog(album_id) /\ fs[album_id].exists
      IN  \E image_ids \in Read(reads, idLists) :
            \E fault \in {NoFault}
                         \cup (IF reads
                               THEN SaveFaults
                                    \cup { [kind |-> "unlink", path |-> j, at |-> k] :
                                             j \in 1..Len(image_ids), k \in UnlinkFailPoints }
                               ELSE {}) :
              LET o == delete_images(catalog, fs[album_id], album_id, image_ids, fault)
              IN  /\ catalog' = o.catalog
                  /\ fs' = [fs EXCEPT ![album_id] = o.dir]
                  /\ Called("delete_images", album_id, o, fault)
                  /\ UNCHANGED <<inflight, pool>>

UpdateAlbum(ids, updateSet) ==
    \E album_id \in ids :
      LET reads == InCatalog(album_id)
      IN  \E updates \in Read(reads, updateSet) :
            \E fault \in {NoFault} \cup (IF reads THEN SaveFaults ELSE {}) :
              LET o == update_album(catalog, album_id, updates, fault)
              IN  /\ catalog' = o.catalog
                  /\ UNCHANGED fs
                  /\ Called("update_album", album_id, o, fault)
                  /\ UNCHANGED <<inflight, pool>>

ProcessStaging(ids, metas, stagedDirs) ==
    \E album_id \in ids, metadata \in metas, staged \in stagedDirs :
      \E fault \in {NoFault} \cup (IF InCatalog(album_id) THEN SaveFaults ELSE {}) :
        \E o \in process_staging_album(catalog, fs[album_id], album_id, metadata,
                                        staged, fault) :
          /\ Len(ImagesOf(o.catalog, album_id)) <= MaxImages
          /\ catalog' = o.catalog
          /\ fs' = [fs EXCEPT ![album_id] = o.dir]
          /\ Called("process_staging_album", album_id, o, fault)
          /\ UNCHANGED <<inflight, pool>>

\* the read operations: last.value is what the call returned
Returned(op, id, o) ==
    last' = [op |-> op, id |-> id, result |-> o.result, fault |-> "none",
             pre |-> [inCatalog |-> InCatalog(id), dirExists |-> fs[id].exists],
             value |-> o.value]

ListAlbums ==
    /\ UNCHANGED <<catalog, fs, inflight, pool>>
    /\ Returned("list_albums", "x", list_albums(catalog))

GetAlbum(ids) ==
    \E album_id \in ids :
        /\ UNCHANGED <<catalog, fs, inflight, pool>>
        /\ Returned("get_album", album_id, get_album(catalog, album_id))

(***************************************************************************)
(* Calls of several callers at a time.  A call that reads, changes and     *)
(* saves the catalog is two steps: the load of albums.json at its          *)
(* beginning, and the rest of the call up to the save, which works on the  *)
(* data that was loaded.  Nothing in AlbumManager keeps the steps of two   *)
(* callers apart.                                                          *)
(***************************************************************************)
\* albums_data = self._load_albums_json() of caller p
LoadAlbumsJson(op, ids, args) ==
    \E p \in Callers, album_id \in ids, arg \in args :
        /\ inflight[p] = Idle
        /\ inflight' = [inflight EXCEPT ![p] = [pc |-> "loaded", op |-> op,
                                                id |-> album_id, arg |-> arg,
                                                albums_data |-> catalog]]
        /\ UNCHANGED <<catalog, fs, last, pool>>

\* update_album after its load: the file is written when the call gets to
\* its save
UpdateAlbumSave ==
    \E p \in Callers :
        /\ inflight[p].pc = "loaded"
        /\ inflight[p].op = "update_album"
        /\ LET c == inflight[p]
               o == update_album(c.albums_data, c.id, c.arg, NoFault)
           IN  /\ catalog' = IF o.result = "True" THEN o.catalog ELSE catalog
               /\ UNCHANGED fs
               /\ Called("update_album", c.id, o, NoFault)
        /\ inflight' = [inflight EXCEPT ![p] = Idle]
        /\ UNCHANGED pool

\* add_images after its load
AddImagesSave ==
    \E p \in Callers :
        /\ inflight[p].pc = "loaded"
        /\ inflight[p].op = "add_images"
        /\ LET c == inflight[p]
           IN  \E o \in add_images(c.albums_data, fs[c.id], c.id, c.arg, NoFault) :
                 /\ Len(ImagesOf(o.catalog, c.id)) <= MaxImages
                 /\ catalog' = IF o.result = "True" THEN o.catalog ELSE catalog
                 /\ fs' = [fs EXCEPT ![c.id] = o.dir]
                 /\ Called("add_images", c.id, o, NoFault)
        /\ inflight' = [inflight EXCEPT ![p] = Idle]
        /\ UNCHANGED pool

(***************************************************************************)
(* The derivation of a batch, task by task.  process_album submits one     *)
(* process_single_image task per file to a ThreadPoolExecutor, reads the   *)
(* results of the futures in the order of submission and leaves the with   *)
(* block, which waits for the tasks; the caller goes on from there.        *)
(* pool: the call that derives, the state of its tasks ("submitted",       *)
(* "done", "failed"), the future the caller reads next, self.metadata.     *)
(***************************************************************************)
\* executor.submit(self.process_single_image, path) for path in image_files
submit(op, album_id, image_files, albums_data) ==
    [pc |-> "collect", op |-> op, id |-> album_id, image_files |-> image_files,
     tasks |-> [i \in 1..Len(image_files) |-> "submitted"],
     next |-> 1, metadata |-> <<>>, albums_data |-> albums_data]

\* future.result() returns or raises once the task has completed
result_ready(task) == task \in {"done", "failed"}

\* process_album returning without reading the futures or waiting for the tasks
process_album_returns_early(p) == TRUE

\* process_album returns: every future has been read, and the exit of the
\* with block (shutdown(wait=True)) has waited for every task
process_album_returns(p) ==
    /\ p.next > Len(p.image_files)
    /\ \A i \in DOMAIN p.tasks : result_ready(p.tasks[i])

\* create_album up to the submission of the tasks
CreateAlbumSubmit(ids, dirs) ==
    \E album_name \in ids, image_dir \in dirs :
        LET image_files ==
                sorted({ f \in image_dir.files : suffix(f.name) \in GlobExtensions })
        IN  /\ pool.pc # "collect"
            /\ ~fs[album_name].exists
            /\ image_dir.exists
            /\ image_files # <<>>
            /\ fs' = [fs EXCEPT ![album_name] =
                                   [exists |-> TRUE, index |-> TRUE, files |-> <<>>]]
            /\ pool' = submit("create_album", album_name, image_files, catalog)
            /\ UNCHANGED <<catalog, last, inflight>>

\* add_images of one directory up to the submission of the tasks
AddImagesSubmit(ids, dirs) ==
    \E album_id \in ids, path \in dirs :
        LET loaded == load_albums_json(catalog)
            image_files ==
                sorted({ f \in path.files : suffix(f.name) \in GlobExtensions })
        IN  /\ pool.pc # "collect"
            /\ loaded.ok
            /\ FindId(loaded.albums, album_id) # 0
            /\ fs[album_id].exists
            /\ path.exists
            /\ image_files # <<>>
            /\ pool' = submit("add_images", album_id, image_files, catalog)
            /\ UNCHANGED <<catalog, fs, last, inflight>>

\* a worker thread runs one task: process_single_image of its file, in which
\* the save of a size variant may raise
WorkerRun ==
    \E i \in DOMAIN pool.tasks, failAt \in {0} \cup WriteFailPoints :
        LET r == process_single_image(pool.image_files[i], failAt)
            there == fs[pool.id].exists
        IN  /\ pool.tasks[i] = "submitted"
            /\ fs' = IF there
                     THEN [fs EXCEPT ![pool.id].files = Overwrite(@, r.written)]
                     ELSE fs
            /\ pool' = [pool EXCEPT
                          !.tasks[i] = IF there /\ r.ok THEN "done" ELSE "failed"]
            /\ UNCHANGED <<catalog, last, inflight>>

\* the loop over the futures: result = future.result(), and
\* self.metadata[path.name] = result when the task did not raise
Collect ==
    LET i == pool.next
        f == pool.image_files[i]
    IN  /\ pool.pc = "collect"
        /\ i <= Len(pool.image_files)
        /\ result_ready(pool.tasks[i])
        /\ pool' = [pool EXCEPT
                      !.next = i + 1,
                      !.metadata =
                          IF pool.tasks[i] = "done"
                          THEN Overwrite(@, f.name :> process_single_image(f, 0).meta)
                          ELSE @]
        /\ UNCHANGED <<catalog, fs, last, inflight>>

\* create_album from the return of process_directory on: the cover, the
\* validation, the catalog
CreateAlbumFinish ==
    /\ pool.pc = "collect"
    /\ pool.op = "create_album"
    /\ process_album_returns(pool)
    /\ LET images_metadata == MetadataList(pool.image_files, pool.metadata)
           o == create_album_commit(catalog, fs[pool.id], pool.id, "t1",
                                    Date_2024_05_01, "", <<>>, images_metadata,
                                    NoFault, FALSE)
       IN  /\ catalog' = o.catalog
           /\ fs' = [fs EXCEPT ![pool.id] = o.dir]
           /\ Called("create_album", pool.id, o, NoFault)
    /\ pool' = [pool EXCEPT !.pc = "returned"]
    /\ UNCHANGED inflight

\* add_images from the return of process_directory on
AddImagesFinish ==
    /\ pool.pc = "collect"
    /\ pool.op = "add_images"
    /\ process_album_returns(pool)
    /\ LET new_images == MetadataList(pool.image_files, pool.metadata)
           albums == pool.albums_data.albums
           k == FindId(albums, pool.id)
           album == [albums[k] EXCEPT !.images = @ \o new_images]
           sv == save_albums_json(catalog, [albums EXCEPT ![k] = album], NoFault)
           o == IF new_images = <<>>
                THEN [result |-> "False", catalog |-> catalog, hit |-> FALSE]
                ELSE [result |-> "True", catalog |-> sv.catalog, hit |-> FALSE]
       IN  /\ Len(ImagesOf(o.catalog, pool.id)) <= MaxImages
           /\ catalog' = o.catalog
           /\ Called("add_images", pool.id, o, NoFault)
    /\ pool' = [pool EXCEPT !.pc = "returned"]
    /\ UNCHANGED <<fs, inflight>>

\* delete_album called while no call is deriving
DeleteAlbumAfterReturn(ids) ==
    /\ pool.pc # "collect"
    /\ DeleteAlbum(ids)

(***************************************************************************)
(* Arguments.                                                              *)
(***************************************************************************)
File(n) == CHOOSE f \in SourceFiles : f.name = n

ImageDirs ==
    { [exists |-> TRUE, files |-> d] : d \in SourceDirs }
    \cup { [exists |-> FALSE, files |-> {}] }

\* cover_image of create_album: None (<<>>) or a file name
CoverHints == { <<>>, <<"b", "jpg">> }

\* the paths of add_images: a file, a directory, or a path that does not exist
FilePath(n) == [kind |-> "file", files |-> {File(n)}]
DirPath(ns) == [kind |-> "dir", files |-> { File(n) : n \in ns }]
MissingPath == [kind |-> "missing", files |-> {}]

PathLists ==
    { <<FilePath(<<"a", "jpg">>)>>, <<FilePath(<<"c", "jpg">>)>>,
      <<DirPath({<<"b", "jpg">>})>>, <<MissingPath>>,
      <<FilePath(<<"a", "jpg">>), FilePath(<<"c", "jpg">>)>>,
      <<FilePath(<<"c", "jpg">>), FilePath(<<"a", "jpg">>)>>,
      <<DirPath({<<"b", "jpg">>}), DirPath({<<"b", "jpg">>})>>,
      <<MissingPath, FilePath(<<"a", "jpg">>)>> }

ImageIds == { <<"a">>, <<"b">> }

IdLists == UNION { [1..n -> ImageIds] : n \in 1..2 }

Updates ==
    { ("cover_image" :> <<"a">>), ("cover_image" :> <<"b">>),
      ("title" :> "t2"), ("favorite" :> TRUE),
      ("title" :> "t2") @@ ("date" :> Date_2024_13_01) }

\* keyword arguments of update_album that name a date or a cover beside a
\* title or a description
MixedUpdates ==
    { ("title" :> "t2") @@ ("date" :> Date_2024_13_01),
      ("title" :> "t2") @@ ("date" :> Date_2024_5_1),
      ("title" :> "t2") @@ ("date" :> Date_2023_01_15),
      ("title" :> "t2") @@ ("cover_image" :> <<"c">>),
      ("description" :> "d2") @@ ("cover_image" :> <<"a">>),
      ("description" :> "d2") @@ ("cover_image" :> <<"b">>) }

\* the dates given to create_album: one that strptime accepts and one it
\* refuses
CreateDates == {Date_2024_05_01, Date_2024_13_01}

Init ==
    /\ catalog \in { [state |-> "absent", albums |-> <<>>],
                     [state |-> "valid", albums |-> <<>>] }
    /\ fs = [id \in AlbumIds |-> NoDir]
    /\ last = [op |-> "init", id |-> "", result |-> "", fault |-> "none",
               pre |-> [inCatalog |-> FALSE, dirExists |-> FALSE]]
    /\ inflight = [p \in Callers |-> Idle]
    /\ pool = NoPool

Next ==
    \/ CreateAlbum({"x"}, CreateDates, ImageDirs, CoverHints)
    \/ DeleteAlbum({"x"})
    \/ AddImages({"x"}, PathLists)
    \/ DeleteImages({"x"}, IdLists)
    \/ UpdateAlbum({"x"}, Updates)

Spec == Init /\ [][Next]_vars

(***************************************************************************)
(* Several albums side by side: the calls on both ids, each album made     *)
(* from a directory of one image.                                          *)
(***************************************************************************)
AlbumDirs ==
    { [exists |-> TRUE, files |-> {File(<<"a", "jpg">>)}],
      [exists |-> TRUE, files |-> {File(<<"b", "jpg">>)}] }

\* two dates strptime accepts, so that albums differ in their date
AlbumDates == {Date_2024_05_01, Date_2023_01_15}

AlbumUpdates == { ("title" :> "t2"), ("favorite" :> TRUE) }

NextAlbums ==
    \/ CreateAlbum(AlbumIds, AlbumDates, AlbumDirs, {<<>>})
    \/ DeleteAlbum(AlbumIds)
    \/ UpdateAlbum(AlbumIds, AlbumUpdates)

SpecAlbums == Init /\ [][NextAlbums]_vars

(***************************************************************************)
(* The staging workflow: albums are made by create_album and staged        *)
(* directories are processed.                                              *)
(***************************************************************************)
StagedDirs ==
    { [metadata_json |-> m, files |-> d] : m \in BOOLEAN, d \in SourceDirs }

StagingMetadata ==
    LET base == ("title" :> "t1") @@ ("date" :> Date_2024_05_01)
    IN  { base, base @@ ("cover_index" :> 1), base @@ ("cover_index" :> 2),
          base @@ ("cover_index" :> 99), base @@ ("favorite" :> TRUE),
          base @@ ("cover_image" :> <<"b">>) @@ ("cover_index" :> 1),
          ("title" :> "t1") }

NextStaging ==
    \/ CreateAlbum({"x"}, {Date_2024_05_01}, ImageDirs, {<<>>})
    \/ ProcessStaging({"x"}, StagingMetadata, StagedDirs)
    \/ DeleteImages({"x"}, IdLists)
    \/ DeleteAlbum({"x"})

SpecStaging == Init /\ [][NextStaging]_vars

(***************************************************************************)
(* Derivation of pictures whose size variants share their paths: a.png     *)
(* beside a.jpg, both with the base name a.                                *)
(***************************************************************************)
SamePathFile == [name |-> <<"a", "png">>, ok |-> TRUE, w |-> 600, h |-> 600]

DeriveFiles == { File(<<"a", "jpg">>), File(<<"b", "jpg">>), SamePathFile }

DeriveDirs ==
    { [exists |-> TRUE, files |-> d] :
        d \in { e \in SUBSET DeriveFiles : Cardinality(e) \in 1..MaxBatch } }

DerivePathLists ==
    { <<[kind |-> "file", files |-> {SamePathFile}]>> }

NextDerive ==
    \/ CreateAlbum({"x"}, {Date_2024_05_01}, DeriveDirs, {<<>>})
    \/ AddImages({"x"}, DerivePathLists)
    \/ DeleteAlbum({"x"})

SpecDerive == Init /\ [][NextDerive]_vars

(***************************************************************************)
(* The read operations beside the calls that make and remove albums.       *)
(***************************************************************************)
NextReads ==
    \/ CreateAlbum(AlbumIds, AlbumDates, AlbumDirs, {<<>>})
    \/ DeleteAlbum(AlbumIds)
    \/ ListAlbums
    \/ GetAlbum(AlbumIds)

SpecReads == Init /\ [][NextReads]_vars

(***************************************************************************)
(* Two callers that update an album and add images to it.                  *)
(***************************************************************************)
ConcurrentUpdates == { ("title" :> "t2"), ("description" :> "d2") }

ConcurrentPathLists == { <<FilePath(<<"b", "jpg">>)>> }

ConcurrentDirs == { [exists |-> TRUE, files |-> {File(<<"a", "jpg">>)}] }

NextConcurrent ==
    \/ CreateAlbum({"x"}, {Date_2024_05_01}, ConcurrentDirs, {<<>>})
    \/ LoadAlbumsJson("update_album", {"x"}, ConcurrentUpdates)
    \/ LoadAlbumsJson("add_images", {"x"}, ConcurrentPathLists)
    \/ UpdateAlbumSave
    \/ AddImagesSave

SpecConcurrent == Init /\ [][NextConcurrent]_vars

(***************************************************************************)
(* One caller whose create_album and add_images calls derive their batch   *)
(* task by task.                                                           *)
(***************************************************************************)
PoolDirs == { d \in ImageDirs : d.exists /\ d.files # {} }

NextPool ==
    \/ CreateAlbumSubmit({"x"}, PoolDirs)
    \/ AddImagesSubmit({"x"}, PoolDirs)
    \/ WorkerRun
    \/ Collect
    \/ CreateAlbumFinish
    \/ AddImagesFinish
    \/ DeleteAlbumAfterReturn({"x"})

SpecPool == Init /\ [][NextPool]_vars

(***************************************************************************)
(* Pictures whose file names hold more than one dot: a.x.jpg and a.y.jpg   *)
(* beside b.jpg.                                                           *)
(***************************************************************************)
DottedFiles ==
    { [name |-> <<"a", "x", "jpg">>, ok |-> TRUE, w |-> 2000, h |-> 1000],
      [name |-> <<"a", "y", "jpg">>, ok |-> TRUE, w |-> 900, h |-> 600],
      File(<<"b", "jpg">>) }

DottedDirs ==
    { [exists |-> TRUE, files |-> d] :
        d \in { e \in SUBSET DottedFiles : Cardinality(e) \in 1..MaxBatch } }

DottedPathLists == { <<[kind |-> "file", files |-> {f}]>> : f \in DottedFiles }

DottedIdLists == { <<stem(f.name)>> : f \in DottedFiles }

NextDotted ==
    \/ CreateAlbum({"x"}, {Date_2024_05_01}, DottedDirs, {<<>>})
    \/ AddImages({"x"}, DottedPathLists)
    \/ DeleteImages({"x"}, DottedIdLists)
    \/ DeleteAlbum({"x"})

SpecDotted == Init /\ [][NextDotted]_vars

(***************************************************************************)
(* update_album given keywords it does not know beside those it knows, on  *)
(* two albums.                                                             *)
(***************************************************************************)
KeywordUpdates ==
    { ("title" :> "t2") @@ ("id" :> "y"),
      ("cover_image" :> <<"a">>) @@ ("images" :> <<>>) }

NextUpdate ==
    \/ CreateAlbum(AlbumIds, {Date_2024_05_01}, AlbumDirs, {<<>>})
    \/ UpdateAlbum(AlbumIds, KeywordUpdates)
    \/ DeleteAlbum(AlbumIds)

SpecUpdate == Init /\ [][NextUpdate]_vars

(***************************************************************************)
(* Properties.                                                             *)
(***************************************************************************)
\* the album directory of id holds the file of every size variant that the
\* catalog lists for id
VariantFilesExist(al) ==
    \A j \in 1..Len(al.images) : \A s \in SizeSet :
        /\ fs[al.id].exists
        /\ al.images[j].sizes[s].webp \in DOMAIN fs[al.id].files

\* every size-variant file on disk is the file of a variant the catalog lists
NoOrphans ==
    \A id \in AlbumIds : \A p \in DOMAIN fs[id].files :
        \E i \in 1..Len(Albums) :
            /\ Albums[i].id = id
            /\ \E j \in 1..Len(Albums[i].images), s \in SizeSet :
                   Albums[i].images[j].sizes[s].webp = p

UniqueIds == \A i, j \in 1..Len(Albums) : Albums[i].id = Albums[j].id => i = j

\* C1: after every completed call, every image a catalog album lists has a
\* file on disk at each of its four size-variant paths under the album's
\* directory.
C1_VariantFilesExist == \A i \in 1..Len(Albums) : VariantFilesExist(Albums[i])

\* C2: after every completed call, the coverImage of each catalog album is
\* the grid variant of one of its images, and is empty exactly when the
\* album has no images.
C2_CoverIsGridOfAnImage ==
    \A i \in 1..Len(Albums) :
        LET al == Albums[i]
        IN  /\ (al.coverImage = EmptyCover) <=> (al.images = <<>>)
            /\ al.images # <<>> =>
                 \E j \in 1..Len(al.images) : al.coverImage = al.images[j].sizes.grid

\* C3: after a create_album or delete_album call that started with directory
\* and catalog entry both present or both absent and that returned True or
\* False, the album directory exists if and only if the catalog has an entry
\* of that id.
C3_DirectoryIffCatalogEntry ==
    (/\ last.op \in {"create_album", "delete_album"}
     /\ last.result \in {"True", "False"}
     /\ last.pre.inCatalog = last.pre.dirExists)
    => (fs[last.id].exists <=> InCatalog(last.id))

\* C4: create_album with the id of an existing album (directory and catalog
\* entry both present), meeting no fault of the environment, returns False and
\* leaves the directory, its files and the catalog as they were.
C4_DuplicateCreateChangesNothing ==
    [][(/\ last'.op = "create_album"
        /\ last'.fault = "none"
        /\ last'.pre.inCatalog
        /\ last'.pre.dirExists)
       => (last'.result = "False" /\ fs' = fs /\ catalog' = catalog)]_vars

\* C5: no two catalog entries ever share an id, and create_album with an id
\* that the catalog already holds fails (it returns False, or raises out of
\* its clean-up when rmtree fails) and leaves the catalog as it was.
C5_AlbumIdsUnique ==
    [][/\ UniqueIds'
       /\ (last'.op = "create_album" /\ last'.pre.inCatalog)
          => /\ last'.result \in {"False", "raised"}
             /\ last'.result = "raised" => last'.fault = "rmtree"
             /\ catalog' = catalog]_vars

\* C5, its case: a create_album call was rejected by the duplicate check of
\* _update_albums_json (the id was in the catalog, the directory was not there)
C5_DuplicateRejected ==
    /\ last.op = "create_album"
    /\ last.pre.inCatalog
    /\ ~last.pre.dirExists
    /\ last.fault = "none"
    /\ last.result = "False"

\* C6: a create_album, add_images or delete_images call that starts without
\* orphaned size-variant files and returns (True or False) ends without them.
C6_NoOrphanedFiles ==
    [][(/\ NoOrphans
        /\ last'.op \in {"create_album", "add_images", "delete_images"}
        /\ last'.result \in {"True", "False"})
       => NoOrphans']_vars

\* C7: delete_images on a batch of ids: when some id is not in the album,
\* neither a file nor the catalog changes; otherwise every requested image is
\* removed from the album.
C7_DeleteImagesAllOrNothing ==
    \A id \in AlbumIds, image_ids \in IdLists :
        (InCatalog(id) /\ fs[id].exists) =>
            LET o == delete_images(catalog, fs[id], id, image_ids, NoFault)
                present(n) == FindId(ImagesOf(catalog, id), image_ids[n]) # 0
            IN  IF \E n \in 1..Len(image_ids) : ~present(n)
                THEN o.dir = fs[id] /\ o.catalog = catalog
                ELSE \A n \in 1..Len(image_ids) :
                         FindId(ImagesOf(o.catalog, id), image_ids[n]) = 0

\* C8: when add_images returns False, the catalog and the files of the album
\* directory are as they were before the call.
C8_FailedAddChangesNothing ==
    [][(last'.op = "add_images" /\ last'.result = "False")
       => (catalog' = catalog /\ fs' = fs)]_vars

\* the metadata of the files of a list of file paths that validate, in order
RECURSIVE DecodableEntries(_)
DecodableEntries(image_paths) ==
    IF image_paths = <<>> THEN <<>>
    ELSE LET f == CHOOSE g \in Head(image_paths).files : TRUE
         IN  (IF validate_image_file(f)
              THEN <<process_single_image(f, 0).meta>> ELSE <<>>)
             \o DecodableEntries(Tail(image_paths))

\* lists of file paths with a decodable and a non-decodable file
MixedFileLists ==
    { l \in PathLists :
        /\ \A n \in 1..Len(l) : l[n].kind = "file"
        /\ \E n \in 1..Len(l) : \A f \in l[n].files : validate_image_file(f)
        /\ \E n \in 1..Len(l) : \A f \in l[n].files : ~validate_image_file(f) }

\* C9: add_images given file paths of which some are decodable and some are
\* not returns True and appends the decodable images to the album.
C9_MixedBatchSucceeds ==
    \A id \in AlbumIds, image_paths \in MixedFileLists :
        (InCatalog(id) /\ fs[id].exists) =>
            \A o \in add_images(catalog, fs[id], id, image_paths, NoFault) :
                /\ o.result = "True"
                /\ ImagesOf(o.catalog, id)
                     = ImagesOf(catalog, id) \o DecodableEntries(image_paths)

\* C10: a create_album call for a new id during which the save of a size
\* variant raises returns False and leaves neither a catalog entry nor an
\* album directory of that id.
C10_DerivationFaultFailsCreate ==
    (/\ last.op = "create_album"
     /\ last.fault = "write"
     /\ ~last.pre.inCatalog
     /\ ~last.pre.dirExists)
    => (/\ last.result = "False"
        /\ ~fs[last.id].exists
        /\ ~InCatalog(last.id))

\* the number of files of a source directory that decode and whose size
\* variants are all saved, given the fault the call meets
DerivedCount(image_dir, fault) ==
    Cardinality({ f \in image_dir.files :
                    /\ suffix(f.name) \in GlobExtensions
                    /\ validate_image_file(f)
                    /\ FailAt(fault, 1, f) = 0 })

\* an id with neither a directory nor a catalog entry, the catalog readable
Fresh(id) == ~fs[id].exists /\ ~InCatalog(id) /\ catalog.state # "corrupt"

\* C11: create_album for a new id with a valid date and no cover hint, from a
\* source directory of which k images decode and derive (the others are not
\* decodable or meet a failing save): when k >= 1 it returns True and the
\* entry lists exactly k images, when k = 0 it returns False.
C11_CreateKeepsDerivedImages ==
    \A id \in AlbumIds, image_dir \in ImageDirs :
        (Fresh(id) /\ image_dir.exists) =>
            \A fault \in {NoFault}
                         \cup WriteFaults(Names(Derivable(image_dir.files)), {1}) :
                \A o \in create_album(catalog, fs[id], id, "t1", Date_2024_05_01,
                                      image_dir, "", <<>>, fault) :
                    LET k == DerivedCount(image_dir, fault)
                    IN  IF k >= 1
                        THEN /\ o.result = "True"
                             /\ Len(ImagesOf(o.catalog, id)) = k
                        ELSE o.result = "False"

\* C11, its case: a create_album call during which the save of a size variant
\* of one image raised has returned True with the one other image
C11_PartialCreate ==
    /\ last.op = "create_album"
    /\ last.fault = "write"
    /\ last.result = "True"
    /\ Len(ImagesOf(catalog, last.id)) = 1

\* C12: delete_album with an id that the (readable) catalog does not hold
\* returns True and changes neither the catalog nor the directories.
C12_DeleteUnknownIsSuccess ==
    [][(/\ last'.op = "delete_album"
        /\ ~last'.pre.inCatalog
        /\ catalog.state # "corrupt")
       => (last'.result = "True" /\ catalog' = catalog /\ fs' = fs)]_vars

\* the catalog entries of an id
Entries(cat, id) ==
    { cat.albums[i] : i \in { j \in 1..Len(cat.albums) : cat.albums[j].id = id } }

\* C13: a delete_album call that returns True leaves no catalog entry and no
\* directory of its id, and leaves the entry and the directory of every other
\* id as they were.
C13_DeleteAlbumRemovesOnlyThatAlbum ==
    [][(last'.op = "delete_album" /\ last'.result = "True")
       => /\ catalog'.state = "valid"
          /\ Entries(catalog', last'.id) = {}
          /\ ~fs'[last'.id].exists
          /\ \A other \in AlbumIds \ {last'.id} :
                 /\ fs'[other] = fs[other]
                 /\ Entries(catalog', other) = Entries(catalog, other)]_vars

\* C13, its case: delete_album has returned True while another album has its
\* entry and its directory
C13_DeletedBesideAnother ==
    /\ last.op = "delete_album"
    /\ last.result = "True"
    /\ \E other \in AlbumIds \ {last.id} :
           InCatalog(other) /\ fs[other].exists /\ fs[other].files # <<>>

\* the catalog entry of an id that the catalog holds
Entry(cat, id) == cat.albums[FindId(cat.albums, id)]

\* the positions of the images whose grid variant is the album's coverImage
CoverPositions(al) ==
    { j \in 1..Len(al.images) : al.images[j].sizes.grid = al.coverImage }

ImageIdsOf(al) == { al.images[j].id : j \in 1..Len(al.images) }

\* C14: delete_images, with or without an unlink that raises: when the image
\* of the album's cover is removed from the images list, coverImage becomes
\* the grid variant of the first image left in the list, or the empty value
\* when none is left; otherwise coverImage is as before.
C14_CoverAfterDeleteImages ==
    \A id \in AlbumIds, image_ids \in IdLists :
        (InCatalog(id) /\ fs[id].exists) =>
            \A fault \in {NoFault}
                         \cup { [kind |-> "unlink", path |-> j, at |-> k] :
                                  j \in 1..Len(image_ids), k \in UnlinkFailPoints } :
                LET o == delete_images(catalog, fs[id], id, image_ids, fault)
                    pre == Entry(catalog, id)
                    post == Entry(o.catalog, id)
                    coverRemoved ==
                        /\ CoverPositions(pre) # {}
                        /\ \A j \in CoverPositions(pre) :
                               pre.images[j].id \notin ImageIdsOf(post)
                IN  IF coverRemoved
                    THEN post.coverImage = IF post.images = <<>> THEN EmptyCover
                                           ELSE post.images[1].sizes.grid
                    ELSE post.coverImage = pre.coverImage

\* C14, its case: delete_images has returned True having removed every image
\* it was given, the cover image among them, and has left no image and the
\* empty cover
C14_CoverCleared ==
    /\ last.op = "delete_images"
    /\ last.result = "True"
    /\ InCatalog(last.id)
    /\ Entry(catalog, last.id).images = <<>>
    /\ Entry(catalog, last.id).coverImage = EmptyCover

\* C15: the images of a catalog album have pairwise distinct ids.
C15_ImageIdsUnique ==
    \A i \in 1..Len(Albums) :
        \A j, k \in 1..Len(Albums[i].images) :
            Albums[i].images[j].id = Albums[i].images[k].id => j = k

\* C16: update_album given a date that is not a calendar date written as
\* YYYY-MM-DD, or a cover_image id that is not among the album's images,
\* returns False and leaves the catalog file as it was, whatever title or
\* description the call also gives.
C16_BadUpdateRejected ==
    \A id \in AlbumIds, updates \in MixedUpdates :
        LET badDate == /\ "date" \in DOMAIN updates
                       /\ ~(strptime(updates.date) /\ DatePattern(updates.date))
            badCover == /\ "cover_image" \in DOMAIN updates
                        /\ updates.cover_image \notin ImageIdsOf(Entry(catalog, id))
        IN  (InCatalog(id) /\ (badDate \/ badCover)) =>
                \A fault \in {NoFault} \cup SaveFaults :
                    LET o == update_album(catalog, id, updates, fault)
                    IN  o.result = "False" /\ o.catalog = catalog

\* the favorite flag of a catalog entry; an entry without the key is not a
\* favorite (the default of ALBUM_SCHEMA)
Favorite(al) == IF "favorite" \in DOMAIN al THEN al.favorite ELSE FALSE

\* C17: after update_album given favorite = v has returned True, the catalog
\* entry of the album has favorite = v.
C17_FavoriteStored ==
    \A id \in AlbumIds, v \in BOOLEAN :
        InCatalog(id) =>
            LET o == update_album(catalog, id, ("favorite" :> v), NoFault)
            IN  o.result = "True" => Favorite(Entry(o.catalog, id)) = v

\* favorite albums first, then the other albums in descending order of date
FavoritesThenDateDescending(albums) ==
    \A i, j \in 1..Len(albums) :
        i < j => /\ Favorite(albums[j]) => Favorite(albums[i])
                 /\ (~Favorite(albums[i]) /\ ~Favorite(albums[j]))
                      => ~StrLess(albums[i].date, albums[j].date)

\* C18: the albums as the catalog file lists them, and as list_albums returns
\* them, are the favorite albums followed by the others in descending order
\* of date.
C18_CatalogOrder ==
    /\ FavoritesThenDateDescending(Albums)
    /\ FavoritesThenDateDescending(list_albums(catalog).value)

\* C19: create_album for a new id given a cover hint that names none of the
\* images derived from the source directory (at least one is derived) returns
\* True, with the grid variant of the first derived image as the cover.
C19_UnresolvedHintFallsBack ==
    \A id \in AlbumIds, image_dir \in ImageDirs,
       cover_image \in { <<"b", "jpg">>, <<"c">> } :
        (/\ Fresh(id)
         /\ image_dir.exists
         /\ DerivedCount(image_dir, NoFault) >= 1
         /\ stem(cover_image) \notin { stem(f.name) : f \in Derivable(image_dir.files) })
        => \A o \in create_album(catalog, fs[id], id, "t1", Date_2024_05_01,
                                  image_dir, "", cover_image, NoFault) :
               /\ o.result = "True"
               /\ Entry(o.catalog, id).coverImage
                    = Entry(o.catalog, id).images[1].sizes.grid

\* the image of the cover_index-th file name among the files of a staged
\* directory that are derived, the first of them when there is no such index
IndexedCover(files, cover_index) ==
    LET accepted == sorted({ f \in Derivable(files) : suffix(f.name) \in GlobExtensions })
    IN  IF cover_index \in 1..Len(accepted) THEN accepted[cover_index]
        ELSE accepted[1]

\* C20: process_staging_album on a staged directory of a new id, with
\* metadata that gives a cover_index and no cover_image and with at least one
\* derivable image, returns True and creates the album with the grid variant
\* of the indexed image as cover (of the first image when the index is out of
\* range).
C20_CoverIndexResolved ==
    \A id \in AlbumIds, staged \in StagedDirs, metadata \in StagingMetadata :
        (/\ Fresh(id)
         /\ staged.metadata_json
         /\ "cover_index" \in DOMAIN metadata
         /\ Derivable(staged.files) # {})
        => \A o \in process_staging_album(catalog, fs[id], id, metadata, staged,
                                           NoFault) :
               /\ o.result = "True"
               /\ Entry(o.catalog, id).coverImage
                    = process_single_image(
                          IndexedCover(staged.files, metadata.cover_index), 0
                      ).meta.sizes.grid

\* C21: process_staging_album on a staged directory of a new id, with
\* metadata that gives both cover_image and cover_index, the cover_image
\* naming a derivable image of the directory, returns True and creates the
\* album with the grid variant of that image as cover, whatever the index.
C21_CoverImageBeforeCoverIndex ==
    \A id \in AlbumIds, staged \in StagedDirs, metadata \in StagingMetadata :
        \A f \in Derivable(staged.files) :
            (/\ Fresh(id)
             /\ staged.metadata_json
             /\ {"cover_image", "cover_index"} \subseteq DOMAIN metadata
             /\ metadata.cover_image = stem(f.name))
            => \A o \in process_staging_album(catalog, fs[id], id, metadata,
                                               staged, NoFault) :
                   /\ o.result = "True"
                   /\ Entry(o.catalog, id).coverImage
                        = process_single_image(f, 0).meta.sizes.grid

\* the files of a source directory that decode and whose size variants are
\* all saved, given the fault the call meets
DerivedFiles(image_dir, fault) ==
    { f \in image_dir.files :
        /\ suffix(f.name) \in GlobExtensions
        /\ validate_image_file(f)
        /\ FailAt(fault, 1, f) = 0 }

\* the position of f among the files of a set in the order of their names
PositionByName(f, files) == 1 + Cardinality({ g \in files : NameLess(g.name, f.name) })

\* C22: create_album for a new id with no cover hint, from a source directory
\* of which at least one image is derived, whichever concurrent derivation
\* gets to write a shared file last: the stored images list holds the derived
\* images in the order of their source file names, and the cover is the grid
\* variant of the first of them.
C22_ImagesInFileNameOrder ==
    \A id \in AlbumIds, image_dir \in DeriveDirs :
        Fresh(id) =>
            \A fault \in {NoFault}
                         \cup WriteFaults(Names(Derivable(image_dir.files)), {1}) :
                LET derived == DerivedFiles(image_dir, fault)
                IN  derived # {} =>
                      \A o \in create_album(catalog, fs[id], id, "t1", Date_2024_05_01,
                                            image_dir, "", <<>>, fault) :
                          LET al == Entry(o.catalog, id)
                          IN  /\ o.result = "True"
                              /\ Len(al.images) = Cardinality(derived)
                              /\ \A f \in derived :
                                     al.images[PositionByName(f, derived)]
                                       = process_single_image(f, 0).meta
                              /\ \A f \in derived :
                                     PositionByName(f, derived) = 1
                                       => al.coverImage
                                            = process_single_image(f, 0).meta.sizes.grid

\* C22, its case: create_album has made an album of two pictures that were
\* derived to the same files, and the files on disk are those of the picture
\* that is first in the list (its derivation wrote last)
C22_SecondFinishedFirst ==
    /\ last.op = "create_album"
    /\ last.result = "True"
    /\ InCatalog(last.id)
    /\ LET al == Entry(catalog, last.id)
       IN  /\ Len(al.images) = 2
           /\ al.images[1].sizes.grid.webp = al.images[2].sizes.grid.webp
           /\ al.images[1].sizes.grid.height # al.images[2].sizes.grid.height
           /\ fs[last.id].files[al.images[1].sizes.grid.webp].height
                = al.images[1].sizes.grid.height

\* the width and height a catalog entry declares for each of its size
\* variants are those of the file at the variant's path
DeclaredDimsAreActual(al) ==
    \A j \in 1..Len(al.images) : \A s \in SizeSet :
        LET v == al.images[j].sizes[s]
        IN  /\ fs[al.id].exists
            /\ v.webp \in DOMAIN fs[al.id].files
            /\ fs[al.id].files[v.webp] = [width |-> v.width, height |-> v.height]

\* C23: after a create_album or add_images call, for every size variant the
\* catalog lists, the declared width and height are the dimensions of the file
\* at the variant's path.
C23_DeclaredDimsAreActual ==
    last.op \in {"create_album", "add_images"}
    => \A i \in 1..Len(Albums) : DeclaredDimsAreActual(Albums[i])

\* C24: a call, whatever write error it meets while it saves the catalog,
\* leaves the catalog file either as it was before the call or holding the
\* complete catalog the call was saving: never a truncated file.
C24_SaveIsAtomic ==
    [][catalog' = catalog \/ catalog'.state = "valid"]_vars

\* C25: a create_album, add_images, delete_images, update_album or
\* delete_album call made while the catalog file exists and cannot be parsed
\* fails (it returns False, or raises out of the clean-up of create_album when
\* rmtree fails) and leaves the catalog file as it is.
C25_CorruptCatalogIsKept ==
    [][(/\ catalog.state = "corrupt"
        /\ last'.op \in {"create_album", "add_images", "delete_images",
                         "update_album", "delete_album"})
       => /\ last'.result \in {"False", "raised"}
          /\ last'.result = "raised" => last'.fault = "rmtree"
          /\ catalog' = catalog]_vars

\* C25, its case: a call for a new album found the catalog file unparsable,
\* has failed and has left the file unparsable
C25_CreateOnCorruptFailed ==
    /\ catalog.state = "corrupt"
    /\ last.op = "create_album"
    /\ last.fault = "none"
    /\ last.result = "False"
    /\ ~last.pre.dirExists

\* C26: a list_albums or get_album call returns (it does not raise) and leaves
\* the catalog file and the directories as they are; when the catalog file is
\* absent or cannot be parsed, list_albums returns the empty list and get_album
\* returns no album.
C26_ReadsNeverRaiseNorWrite ==
    [][last'.op \in {"list_albums", "get_album"}
       => /\ last'.result = "returned"
          /\ catalog' = catalog
          /\ fs' = fs
          /\ catalog.state # "valid" => last'.value = <<>>]_vars

\* C26, its case: list_albums was called on an unparsable catalog file
C26_ListedUnparsable ==
    /\ last.op = "list_albums"
    /\ catalog.state = "corrupt"
    /\ last.value = <<>>

\* C27: the load-change-save cycles of two callers do not interleave: a call
\* that saves the catalog saves a change of the catalog file as it is then, no
\* other call has written the file since the call loaded it, so no saved
\* change is lost.
C27_NoLostUpdate ==
    [][\A p \in Callers :
           (inflight[p] # Idle /\ inflight'[p] = Idle /\ last'.result = "True")
           => inflight[p].albums_data = catalog]_vars

\* C28: every create_album, add_images, delete_images, update_album,
\* delete_album and process_staging_album call ends by returning True or
\* False; no exception leaves the call, whatever fault it meets.
C28_NoExceptionEscapes ==
    last.op \in {"create_album", "add_images", "delete_images", "update_album",
                 "delete_album", "process_staging_album"}
    => last.result \in {"True", "False"}

\* C29: create_album for a new id given a date that is not a calendar date
\* written as YYYY-MM-DD rejects it before it changes anything: at no point of
\* the call is the album directory made, and the directory and the catalog
\* file are as before when the call ends.
C29_DateValidatedBeforeMutation ==
    \A id \in AlbumIds, image_dir \in ImageDirs :
        (Fresh(id) /\ image_dir.exists) =>
            \A o \in create_album(catalog, fs[id], id, "t1", Date_2024_13_01,
                                  image_dir, "", <<>>, NoFault) :
                /\ ~o.made
                /\ o.dir = fs[id]
                /\ o.catalog = catalog

\* C30: process_staging_album on a staged directory of a new id that holds
\* metadata.json with a title and a date, no cover hint, and at least one
\* decodable image returns True, removes the staged directory, makes the album
\* directory with its index.html, and adds a catalog entry of that id with the
\* title of the metadata.
C30_StagedAlbumIsCreated ==
    \A id \in AlbumIds, staged \in StagedDirs, metadata \in StagingMetadata :
        (/\ Fresh(id)
         /\ staged.metadata_json
         /\ {"title", "date"} \subseteq DOMAIN metadata
         /\ "cover_image" \notin DOMAIN metadata
         /\ Derivable(staged.files) # {})
        => \A o \in process_staging_album(catalog, fs[id], id, metadata, staged,
                                           NoFault) :
               /\ o.result = "True"
               /\ o.removed
               /\ o.dir.exists /\ o.dir.index
               /\ FindId(o.catalog.albums, id) # 0
               /\ Entry(o.catalog, id).title = metadata.title

\* C31: create_album builds the album away from albums/<id>: a call for a new
\* id that does not end by returning True (no image is derived, the cover hint
\* names no derived image, or the date is refused) has at no point made the
\* directory albums/<id>, and leaves no such directory.
C31_LiveDirOnlyAfterSuccess ==
    \A id \in AlbumIds, date \in CreateDates, image_dir \in ImageDirs,
       cover_image \in CoverHints :
        Fresh(id) =>
            \A o \in create_album(catalog, fs[id], id, "t1", date, image_dir, "",
                                  cover_image, NoFault) :
                o.result # "True" => (~o.made /\ ~o.dir.exists)

\* C32: delete_album takes the entry out of the catalog before it removes the
\* album directory, so a call on an album that had both, whatever fault it
\* meets on the way, never leaves a catalog entry whose directory is gone.
C32_EntryRemovedBeforeDirectory ==
    (/\ last.op = "delete_album"
     /\ last.pre.inCatalog
     /\ last.pre.dirExists
     /\ InCatalog(last.id))
    => fs[last.id].exists

\* C33: when a create_album or add_images call has gone on from the
\* derivation of its batch to the cover and the catalog, every task of the
\* batch has completed or failed: none is waiting or writing files.
C33_CatalogAfterJoin ==
    pool.pc = "returned"
    => \A i \in DOMAIN pool.tasks : pool.tasks[i] \in {"done", "failed"}

\* C33, its case: create_album has written the catalog after a batch of two
\* tasks of which one failed
C33_ReturnedAfterFailedTask ==
    /\ pool.pc = "returned"
    /\ pool.op = "create_album"
    /\ last.result = "True"
    /\ Len(pool.image_files) = 2
    /\ \E i \in DOMAIN pool.tasks : pool.tasks[i] = "failed"

\* the path images/<size>/<id>.webp of an image id
IdPath(size, id) == <<"images", size>> \o id \o <<"webp">>

\* C34: in every album of the catalog each size variant of an image is at
\* images/<size>/<id>.webp, the id being that of the image, so two images of
\* an album with different ids have different files for every size.
C34_VariantPathFromId ==
    \A k \in 1..Len(Albums) :
        LET images == Albums[k].images
        IN  /\ \A i \in 1..Len(images), s \in SizeSet :
                   images[i].sizes[s].webp = IdPath(s, images[i].id)
            /\ \A i, j \in 1..Len(images), s \in SizeSet :
                   images[i].id # images[j].id
                   => images[i].sizes[s].webp # images[j].sizes[s].webp

\* n / d rounded to the nearest integer
RoundDiv(n, d) == (2 * n + d) \div (2 * d)

\* the dimensions of the size variant of target width w of a W x H source:
\* unscaled up to w, otherwise w wide with the height rounded
ScaledDims(w, W, H) ==
    IF W <= w THEN [width |-> W, height |-> H]
    ELSE [width |-> w, height |-> RoundDiv(H * w, W)]

\* C35: every size variant a catalog entry lists for an image declares the
\* dimensions of its source scaled to the target width of the size: the
\* source's own when it is not wider, otherwise the target width and
\* round(H * w / W).
C35_DeclaredDimsAreScaled ==
    \A k \in 1..Len(Albums) :
        \A i \in 1..Len(Albums[k].images), f \in DottedFiles, s \in SizeSet :
            LET v == Albums[k].images[i].sizes[s]
            IN  Albums[k].images[i].id = stem(f.name)
                => [width |-> v.width, height |-> v.height]
                     = ScaledDims(RESPONSIVE_SIZES[s].width, f.w, f.h)

C37_FilesDeletedOnlyOfRemovedImages ==
    [][last'.op = "delete_images"
       => LET images == ImagesOf(catalog', last'.id)
          IN  \A i \in 1..Len(images), s \in SizeSet :
                  images[i].sizes[s].webp \in DOMAIN fs[last'.id].files
                  => images[i].sizes[s].webp \in DOMAIN fs'[last'.id].files]_vars

\* a process_staging_album call on a staged directory that returns True and
\* changes neither the catalog, nor the album directory, nor the staged
\* directory, whatever fault is armed
SkippedUnchanged(id, metadata, staged) ==
    \A fault \in {NoFault, [kind |-> "rmtree"]} \cup SaveFaults :
        \A o \in process_staging_album(catalog, fs[id], id, metadata, staged, fault) :
            /\ o.result = "True"
            /\ o.catalog = catalog
            /\ o.dir = fs[id]
            /\ ~o.removed

RECURSIVE DerivedInCall(_, _, _)
DerivedInCall(image_paths, i, fault) ==
    IF i > Len(image_paths) THEN 0
    ELSE Cardinality({ f \in image_paths[i].files :
                         /\ suffix(f.name) \in GlobExtensions
                         /\ validate_image_file(f)
                         /\ FailAt(fault, i, f) = 0 })
         + DerivedInCall(image_paths, i + 1, fault)

\* C39: add_images of two directories with one ImageProcessor: what each
\* process_directory call returns holds the images derived in that call only,
\* so the call appends one entry per derivation that succeeded, also when a
\* file of the second directory bears the name of a file of the first and
\* its derivation fails.
C39_NoResultOfEarlierCall ==
    \A id \in AlbumIds :
        (InCatalog(id) /\ fs[id].exists) =>
            \A image_paths \in { pl \in PathLists :
                                   \A i \in 1..Len(pl) : pl[i].kind = "dir" } :
                \A fault \in {NoFault}
                             \cup UNION { WriteFaults(Names(image_paths[i].files), {i}) :
                                            i \in 1..Len(image_paths) } :
                    \A o \in add_images(catalog, fs[id], id, image_paths, fault) :
                        o.result = "True"
                        => Len(ImagesOf(o.catalog, id))
                             = Len(ImagesOf(catalog, id))
                               + DerivedInCall(image_paths, 1, fault)

====
